---- MODULE Spec2Model ----
(***************************************************************************)
(* The interactive query session of steampipe (package interactive) and    *)
(* the connection descriptors of package modconfig, as a state machine.    *)
(*                                                                         *)
(* Goroutines of the session: the controller (InteractivePrompt), the      *)
(* read loop with its executor callback, the interrupt handler             *)
(* (startCancelHandler), the initialisation pipeline and the notification  *)
(* listener.  Text is a sequence of one-character strings.                 *)
(***************************************************************************)
EXTENDS Integers, Sequences, FiniteSets, TLC

\* ------------------------------------------------------------------ bounds
\* most history entries a run records
MaxHistory == 2
\* most raw lines held in the interactive buffer
MaxBuffer == 2
\* most schema changes of the backend in one run
MaxUpdates == 1

\* --------------------------------------------------------------------- text
NL == "\n"
SP == " "
SEMI == ";"
DOT == "."

\* strings.TrimSpace
RECURSIVE TrimLeft(_)
TrimLeft(s) ==
    IF s = <<>> THEN <<>>
    ELSE IF Head(s) \in {SP, NL} THEN TrimLeft(Tail(s)) ELSE s

RECURSIVE TrimRight(_)
TrimRight(s) ==
    IF s = <<>> THEN <<>>
    ELSE IF s[Len(s)] \in {SP, NL} THEN TrimRight(SubSeq(s, 1, Len(s) - 1)) ELSE s

TrimSpace(s) == TrimRight(TrimLeft(s))

\* strings.Join(lines, "\n")
RECURSIVE Join(_)
Join(lines) ==
    IF lines = <<>> THEN <<>>
    ELSE IF Len(lines) = 1 THEN lines[1]
    ELSE lines[1] \o <<NL>> \o Join(Tail(lines))

\* strings.HasSuffix(s, ";")
HasSuffixSemi(s) == Len(s) > 0 /\ s[Len(s)] = SEMI

\* len(strings.Split(s, "\n"))
SplitCount(s) == 1 + Cardinality({i \in 1..Len(s) : s[i] = NL})

\* the first whitespace-separated field of s
RECURSIVE FirstField(_)
FirstField(s) ==
    IF s = <<>> \/ Head(s) \in {SP, NL} THEN <<>>
    ELSE <<Head(s)>> \o FirstField(Tail(s))

\* the directives the session knows: .h (help) and .e (exit)
HelpDirective == <<DOT, "h">>
ExitDirective == <<DOT, "e">>
Directives == {HelpDirective, ExitDirective}

\* metaquery.IsMetaQuery: the text starts with '.' and its first field is a
\* known directive
IsMetaQuery(s) == s # <<>> /\ Head(s) = DOT /\ FirstField(s) \in Directives

\* the named queries of the workspace: name |-> SQL
NamedQueryText == <<"n">>
NamedQuerySQL == <<"a", NL, "b", SEMI>>
\* a reference to a query the workspace does not hold
UnknownQueryText == <<"u">>

\* workspace.ResolveQueryAndArgsFromSQLString: a named query resolves to its
\* SQL, an unknown reference is an error, any other text is executed as is
ResolveQuery(text) ==
    IF text = NamedQueryText
      THEN [err |-> FALSE, named |-> TRUE, ExecuteSQL |-> NamedQuerySQL]
    ELSE IF FirstField(text) = UnknownQueryText
      THEN [err |-> TRUE, named |-> FALSE, ExecuteSQL |-> <<>>]
    ELSE [err |-> FALSE, named |-> FALSE, ExecuteSQL |-> text]

shouldExecute_NoMetaquery(line, namedQuery, multiLine) ==
    IF namedQuery THEN TRUE
    ELSE IF ~multiLine THEN TRUE
    ELSE HasSuffixSemi(line)

shouldExecute_IgnoreMode(line, namedQuery, multiLine) ==
    IF namedQuery THEN TRUE
    ELSE IF IsMetaQuery(line) THEN TRUE
    ELSE HasSuffixSemi(line)

\* shouldExecute
shouldExecute(line, namedQuery, multiLine) ==
    IF namedQuery THEN TRUE
    ELSE IF ~multiLine THEN TRUE
    ELSE IF IsMetaQuery(line) THEN TRUE
    ELSE HasSuffixSemi(line)

NoQuery == <<"<nil>">>

getQueryResolved_KeepOnError(buffer, line, multiLine) ==
    LET joined == Join(Append(buffer, line))
        r == ResolveQuery(joined)
    IN  IF r.err
          THEN [buffer |-> Append(buffer, line), history |-> <<line>>, query |-> NoQuery,
                restart |-> FALSE]
        ELSE IF ~shouldExecute(joined, r.named, multiLine)
          THEN [buffer |-> Append(buffer, line), history |-> <<>>, query |-> NoQuery, restart |-> FALSE]
        ELSE IF TrimSpace(r.ExecuteSQL) = <<SEMI>>
          THEN [buffer |-> <<>>, history |-> <<>>, query |-> NoQuery, restart |-> TRUE]
        ELSE [buffer |-> <<>>,
              history |-> IF ~r.named /\ SplitCount(r.ExecuteSQL) > 1
                            THEN <<r.ExecuteSQL>> ELSE <<line>>,
              query |-> r.ExecuteSQL,
              restart |-> FALSE]

getQueryResolved_BufferedHistory(buffer, line, multiLine) ==
    LET joined == Join(Append(buffer, line))
        r == ResolveQuery(joined)
    IN  IF r.err
          THEN [buffer |-> <<>>, history |-> <<line>>, query |-> NoQuery, restart |-> FALSE]
        ELSE IF ~shouldExecute(joined, r.named, multiLine)
          THEN [buffer |-> Append(buffer, line), history |-> <<line>>, query |-> NoQuery, restart |-> FALSE]
        ELSE IF TrimSpace(r.ExecuteSQL) = <<SEMI>>
          THEN [buffer |-> <<>>, history |-> <<>>, query |-> NoQuery, restart |-> TRUE]
        ELSE [buffer |-> <<>>,
              history |-> IF ~r.named /\ SplitCount(r.ExecuteSQL) > 1
                            THEN <<r.ExecuteSQL>> ELSE <<line>>,
              query |-> r.ExecuteSQL,
              restart |-> FALSE]

getQueryResolved_NoBareCheck(buffer, line, multiLine) ==
    LET joined == Join(Append(buffer, line))
        r == ResolveQuery(joined)
    IN  IF r.err
          THEN [buffer |-> <<>>, history |-> <<line>>, query |-> NoQuery, restart |-> FALSE]
        ELSE IF ~shouldExecute(joined, r.named, multiLine)
          THEN [buffer |-> Append(buffer, line), history |-> <<>>, query |-> NoQuery, restart |-> FALSE]
        ELSE [buffer |-> <<>>,
              history |-> IF ~r.named /\ SplitCount(r.ExecuteSQL) > 1
                            THEN <<r.ExecuteSQL>> ELSE <<line>>,
              query |-> r.ExecuteSQL,
              restart |-> FALSE]

getQueryResolved_RawHistory(buffer, line, multiLine) ==
    LET joined == Join(Append(buffer, line))
        r == ResolveQuery(joined)
    IN  IF r.err
          THEN [buffer |-> <<>>, history |-> <<line>>, query |-> NoQuery, restart |-> FALSE]
        ELSE IF ~shouldExecute(joined, r.named, multiLine)
          THEN [buffer |-> Append(buffer, line), history |-> <<>>, query |-> NoQuery, restart |-> FALSE]
        ELSE IF TrimSpace(r.ExecuteSQL) = <<SEMI>>
          THEN [buffer |-> <<>>, history |-> <<>>, query |-> NoQuery, restart |-> TRUE]
        ELSE [buffer |-> <<>>, history |-> <<line>>, query |-> r.ExecuteSQL, restart |-> FALSE]

\* getQuery once the client is initialised: the new buffer, the history
\* entries pushed on return (none or one), the resolved query or NoQuery, and
\* whether getQuery itself restarted the session (a bare terminator)
getQueryResolved(buffer, line, multiLine) ==
    LET joined == Join(Append(buffer, line))
        r == ResolveQuery(joined)
    IN  IF r.err
          THEN [buffer |-> <<>>, history |-> <<line>>, query |-> NoQuery, restart |-> FALSE]
        ELSE IF ~shouldExecute(joined, r.named, multiLine)
          THEN [buffer |-> Append(buffer, line), history |-> <<>>, query |-> NoQuery, restart |-> FALSE]
        ELSE IF TrimSpace(r.ExecuteSQL) = <<SEMI>>
          THEN [buffer |-> <<>>, history |-> <<>>, query |-> NoQuery, restart |-> TRUE]
        ELSE [buffer |-> <<>>,
              history |-> IF ~r.named /\ SplitCount(r.ExecuteSQL) > 1
                            THEN <<r.ExecuteSQL>> ELSE <<line>>,
              query |-> r.ExecuteSQL,
              restart |-> FALSE]


\* --------------------------------------------------------------- connections
\* the longest list of child names of a connection
MaxChildren == 2

ConnectionTypeAggregator == "aggregator"

\* the plugins, connection types and connection names of the configurations
Plugins == {"P", "Q"}
ConnectionTypes == {"", ConnectionTypeAggregator, "x"}
AggregatorName == <<"a">>
ConnectionNameSet == {AggregatorName, <<"b", "1">>, <<"b", "2">>, <<"c">>}
\* the entries of a list of child names: names and wildcards
ChildEntries == {<<"b", "*">>, <<"c">>, AggregatorName, <<"*">>, <<"d">>}

\* path.Match for patterns of literal characters and '*'
RECURSIVE Match(_, _)
Match(pattern, name) ==
    IF pattern = <<>> THEN name = <<>>
    ELSE IF Head(pattern) = "*"
      THEN \E k \in 0..Len(name) : Match(Tail(pattern), SubSeq(name, k + 1, Len(name)))
    ELSE /\ name # <<>>
         /\ Head(name) = Head(pattern)
         /\ Match(Tail(pattern), Tail(name))

\* the orders in which a range over the connection map can yield its keys
KeyOrders(cm) ==
    { o \in [1..Cardinality(DOMAIN cm) -> DOMAIN cm] :
        \A i, j \in 1..Cardinality(DOMAIN cm) : o[i] = o[j] => i = j }

MatchInOrder_FirstOnly(order, childName, c, cm, found) ==
    LET hits == { i \in 1..Len(order) :
                    /\ cm[order[i]].Type # ConnectionTypeAggregator
                    /\ order[i] \notin found
                    /\ Match(childName, order[i])
                    /\ cm[order[i]].Plugin = c.Plugin }
    IN  IF hits = {} THEN found
        ELSE found \cup {order[CHOOSE i \in hits : \A j \in hits : i <= j]}

\* the range over connectionMap for one wildcard: the keys of c.Connections
\* after the keys in order are visited
RECURSIVE MatchInOrder(_, _, _, _, _)
MatchInOrder(order, childName, c, cm, found) ==
    IF order = <<>> THEN found
    ELSE LET name == Head(order)
         IN  IF cm[name].Type = ConnectionTypeAggregator
               THEN MatchInOrder(Tail(order), childName, c, cm, found)
             ELSE IF name \in found
               THEN MatchInOrder(Tail(order), childName, c, cm, found)
             ELSE IF Match(childName, name) /\ cm[name].Plugin = c.Plugin
               THEN MatchInOrder(Tail(order), childName, c, cm, found \cup {name})
             ELSE MatchInOrder(Tail(order), childName, c, cm, found)

PopulateChild_LiteralOnly(childName, c, cm, order, found) ==
    IF childName \in DOMAIN cm THEN found \cup {childName} ELSE found

\* one turn of the loop of PopulateChildren over c.ConnectionNames: the keys
\* of c.Connections after childName is handled; order is the order in which
\* the range over the map yields its keys in this turn
PopulateChild(childName, c, cm, order, found) ==
    IF childName \in DOMAIN cm THEN found \cup {childName}
    ELSE MatchInOrder(order, childName, c, cm, found)

\* the turns of the loop for the child names given, each with the same order
RECURSIVE PopulateNames(_, _, _, _, _)
PopulateNames(childNames, c, cm, order, found) ==
    IF childNames = <<>> THEN found
    ELSE PopulateNames(Tail(childNames), c, cm, order,
                       PopulateChild(Head(childNames), c, cm, order, found))

\* PopulateChildren: the keys of c.Connections it builds when every range
\* over the map yields the keys in the same order
PopulateChildren(c, cm, order) == PopulateNames(c.ConnectionNames, c, cm, order, {})

\* GetResolveConnectionNames: the keys of c.Connections, in no defined order
GetResolveConnectionNames(children) == children

\* ValidateAggregatorConnection: a warning without children, else an error
\* for each child that uses another plugin
ValidateAggregatorConnection(c, children, cm) ==
    IF children = {}
      THEN [warnings |-> {<<"noChildren", c.Name>>}, errors |-> {}]
      ELSE [warnings |-> {},
            errors |-> { <<"plugin", name>> : name \in {n \in children : cm[n].Plugin # c.Plugin} }]

\* Validate
Validate(c, children, cm) ==
    IF c.Type \notin {"", ConnectionTypeAggregator}
      THEN [warnings |-> {}, errors |-> {<<"invalidType", c.Name>>}]
    ELSE IF c.Type = ConnectionTypeAggregator
      THEN ValidateAggregatorConnection(c, children, cm)
    ELSE [warnings |-> {},
          errors |-> IF Len(c.ConnectionNames) # 0
                       THEN {<<"hasChildren", c.Name>>} ELSE {}]


\* -------------------------------------------------------------------- state
VARIABLES
    mainPc,                  \* InteractivePrompt: where the controller is
    afterClose,              \* c.afterClose
    promptRunning,           \* a runInteractivePrompt goroutine is alive
    promptCancelled,         \* the current prompt context is cancelled
    promptResultChan,        \* values waiting in promptResultChan (capacity 1)
    initPc,                  \* readInitDataStream: "loading" or "sent"
    initResultChan,          \* the value waiting in c.initResultChan, or "none"
    initError,               \* c.initData.Result.Error is set
    initialisationComplete,  \* c.initialisationComplete
    interactiveBuffer,       \* c.interactiveBuffer
    history,                 \* c.interactiveQueryHistory
    multiLine,               \* the multi-line option
    execPc,                  \* executor: where the call in flight is
    line,                    \* executor: its line argument
    resolved,                \* executor: resolvedQuery.ExecuteSQL, or NoQuery
    waitedInit,              \* getQuery: the deferred cancel of the wait is registered
    lastResult,              \* outcome of the last execution
    cancelActiveQuery,       \* c.cancelActiveQuery: "nil", or "set" to the cancel
                             \* function of the query context created last
    queryCtxCancelled,       \* the query context created last is cancelled
    executionLock,           \* c.executionLock: the set of its holders
    handlerPc,               \* the goroutine of startCancelHandler
    sigint,                  \* where the executor was at the last interrupt served
                             \* after initialisation: "idle" or "stmt" ("none": no
                             \* such interrupt yet)
    quitChannel,             \* values waiting in quitChannel (capacity 1)
    listenerPc,              \* listenToPgNotifications / handleConnectionUpdateNotification
    cancelNotificationListener, \* c.cancelNotificationListener is set
    listenerCancelled,       \* the listener's context is cancelled
    dbVersion,               \* the backend's schema version
    pendingNotifications,    \* schema-update notifications not yet received
    cycleError,              \* the step of the invalidation cycle whose error was
                             \* logged last ("none": no error in this cycle)
    notification,            \* what the notification received last decoded to:
                             \* "SchemaUpdate", "other" (another tag), "garbled"
                             \* (no decoding), or "none" (nothing received yet)
    connectionMap,           \* c.initData.ConnectionMap
    schemaMetadata,          \* c.schemaMetadata
    suggestions,             \* c.querySuggestions / c.tableSuggestions
    teardown                 \* the teardown steps taken, in order

sessionVars == <<mainPc, afterClose, promptRunning, promptCancelled, promptResultChan>>
initVars == <<initPc, initResultChan, initError, initialisationComplete>>
inputVars == <<interactiveBuffer, history, multiLine>>
execVars == <<execPc, line, resolved, waitedInit, lastResult>>
tokenVars == <<cancelActiveQuery, queryCtxCancelled>>
handlerVars == <<handlerPc, sigint, quitChannel>>
listenerVars == <<listenerPc, cancelNotificationListener, listenerCancelled, dbVersion,
                  pendingNotifications, cycleError, notification>>
cacheVars == <<connectionMap, schemaMetadata, suggestions>>

\* the connections of a configuration and the aggregator connection "a"
VARIABLES
    connPc,                  \* "off", or where the configuration load is
    configConnections,       \* the connection map: name |-> connection
    Connections,             \* the keys of c.Connections of the aggregator
    ResolvedConnectionNames, \* the names in c.ResolvedConnectionNames
    populateIdx,             \* PopulateChildren: the position in c.ConnectionNames
                             \* of the child name handled next (0: not running)
    validation               \* what Validate returned, or "none"

connVars == <<connPc, configConnections, Connections, ResolvedConnectionNames,
              populateIdx, validation>>

vars == <<sessionVars, initVars, inputVars, execVars, tokenVars, executionLock,
          handlerVars, listenerVars, cacheVars, teardown, connVars>>

\* the lines a user submits
Lines ==
    { <<>>, <<"s">>, <<"1", SEMI>>, <<SEMI>>, <<SP, SEMI, SP>>, HelpDirective,
      ExitDirective, NamedQueryText, UnknownQueryText }

\* the lines submitted in the runs that interleave all goroutines
SessionLines == { <<"1", SEMI>>, ExitDirective }

\* the lines submitted in the runs with interrupts and no schema change
PromptLines == { <<"s">>, <<"1", SEMI>>, ExitDirective }

\* newInteractiveClient: the state of a client before InteractivePrompt runs
Init ==
    /\ mainPc = "begin"
    /\ afterClose = "Exit"
    /\ promptRunning = FALSE
    /\ promptCancelled = FALSE
    /\ promptResultChan = 0
    /\ initPc = "loading"
    /\ initResultChan = "none"
    /\ initError = FALSE
    /\ initialisationComplete = FALSE
    /\ interactiveBuffer = <<>>
    /\ history = <<>>
    /\ multiLine \in BOOLEAN
    /\ execPc = "idle"
    /\ line = <<>>
    /\ resolved = NoQuery
    /\ waitedInit = FALSE
    /\ lastResult = "none"
    /\ cancelActiveQuery = "nil"
    /\ queryCtxCancelled = TRUE
    /\ executionLock = {}
    /\ handlerPc = "none"
    /\ sigint = "none"
    /\ quitChannel = 0
    /\ listenerPc = "off"
    /\ cancelNotificationListener = FALSE
    /\ listenerCancelled = FALSE
    /\ dbVersion = 0
    /\ pendingNotifications = 0
    /\ cycleError = "none"
    /\ notification = "none"
    /\ connectionMap = 0
    /\ schemaMetadata = 0
    /\ suggestions = 0
    /\ teardown = <<>>
    /\ connPc = "off"
    /\ configConnections = <<>>
    /\ Connections = {}
    /\ ResolvedConnectionNames = {}
    /\ populateIdx = 0
    /\ validation = "none"


\* ------------------------------------------------------------- the read loop
\* go-prompt hands a submitted line to callExecutor
callExecutor(lines) ==
    /\ promptRunning /\ ~promptCancelled /\ execPc = "idle"
    /\ Len(history) < MaxHistory
    /\ Len(interactiveBuffer) < MaxBuffer
    /\ \E raw \in lines : line' = raw
    /\ execPc' = "start"
    /\ UNCHANGED <<sessionVars, initVars, inputVars, resolved, waitedInit,
                   lastResult, tokenVars,
                   executionLock, handlerVars, listenerVars, cacheVars, teardown>>
    /\ UNCHANGED connVars

SubmitLine == callExecutor(SessionLines)

SubmitPromptLine == callExecutor(PromptLines)

SubmitAnyLine == callExecutor(Lines)

\* the Ctrl-C key binding: breakMultilinePrompt
breakMultilinePrompt ==
    /\ promptRunning /\ ~promptCancelled /\ execPc = "idle"
    /\ interactiveBuffer # <<>>
    /\ interactiveBuffer' = <<>>
    /\ UNCHANGED <<sessionVars, initVars, history, multiLine, execVars, tokenVars,
                   executionLock, handlerVars, listenerVars, cacheVars, teardown>>
    /\ UNCHANGED connVars

\* the Ctrl-D key binding on an empty input: ClosePrompt(AfterPromptCloseExit)
ControlD ==
    /\ promptRunning /\ ~promptCancelled /\ execPc = "idle"
    /\ afterClose' = "Exit"
    /\ promptCancelled' = TRUE
    /\ queryCtxCancelled' = TRUE
    /\ UNCHANGED <<mainPc, promptRunning, promptResultChan, initVars, inputVars,
                   execVars, cancelActiveQuery, executionLock, handlerVars,
                   listenerVars, cacheVars, teardown>>
    /\ UNCHANGED connVars

\* RunCtx returns once the prompt context is cancelled; the goroutine of
\* runInteractivePromptAsync sends the exit status
PromptExit ==
    /\ promptRunning /\ promptCancelled /\ execPc = "idle"
    /\ promptRunning' = FALSE
    /\ promptResultChan' = promptResultChan + 1
    /\ UNCHANGED <<mainPc, afterClose, promptCancelled, initVars, inputVars,
                   execVars, tokenVars, executionLock, handlerVars, listenerVars,
                   cacheVars, teardown>>
    /\ UNCHANGED connVars

\* ------------------------------------------------------------------ executor
\* c.executionLock.Lock()
ExecLock ==
    /\ execPc = "start"
    /\ executionLock = {}
    /\ executionLock' = executionLock \cup {"executor"}
    /\ execPc' = "locked"
    /\ UNCHANGED <<sessionVars, initVars, inputVars, line, resolved, waitedInit,
                   lastResult, tokenVars, handlerVars, listenerVars, cacheVars,
                   teardown>>
    /\ UNCHANGED connVars

\* c.afterClose = AfterPromptCloseRestart; line = strings.TrimSpace(line)
ExecSetAfterClose ==
    /\ execPc = "locked"
    /\ afterClose' = "Restart"
    /\ line' = TrimSpace(line)
    /\ execPc' = "getq"
    /\ UNCHANGED <<mainPc, promptRunning, promptCancelled, promptResultChan,
                   initVars, inputVars, resolved, waitedInit, lastResult, tokenVars,
                   executionLock, handlerVars, listenerVars, cacheVars, teardown>>
    /\ UNCHANGED connVars

ExecGetQuery_NoWait ==
    /\ execPc = "getq"
    /\ IF line = <<>>
         THEN /\ execPc' = "restart"
              /\ UNCHANGED <<waitedInit, tokenVars>>
         ELSE /\ execPc' = "resolve"
              /\ UNCHANGED <<waitedInit, tokenVars>>
    /\ UNCHANGED <<sessionVars, initVars, inputVars, line, resolved, lastResult,
                   executionLock, handlerVars, listenerVars, cacheVars, teardown>>
    /\ UNCHANGED connVars

\* getQuery up to the wait for initialisation: an empty line returns nil; a
\* client that is not initialised creates a query context for the wait
ExecGetQuery ==
    /\ execPc = "getq"
    /\ IF line = <<>>
         THEN /\ execPc' = "restart"
              /\ UNCHANGED <<waitedInit, tokenVars>>
         ELSE IF ~initialisationComplete
           THEN /\ execPc' = "waitinit"
                /\ waitedInit' = TRUE
                /\ cancelActiveQuery' = "set"
                /\ queryCtxCancelled' = promptCancelled
           ELSE /\ execPc' = "resolve"
                /\ UNCHANGED <<waitedInit, tokenVars>>
    /\ UNCHANGED <<sessionVars, initVars, inputVars, line, resolved, lastResult,
                   executionLock, handlerVars, listenerVars, cacheVars, teardown>>
    /\ UNCHANGED connVars

ExecWaitInit_KeepHistory ==
    /\ execPc = "waitinit"
    /\ \/ /\ queryCtxCancelled \/ (initialisationComplete /\ initError)
          /\ interactiveBuffer' = <<>>
          /\ history' = Append(history, line)
          /\ cancelActiveQuery' = "nil"
          /\ queryCtxCancelled' = TRUE
          /\ execPc' = "restart"
       \/ /\ initialisationComplete /\ ~initError
          /\ execPc' = "resolve"
          /\ UNCHANGED <<interactiveBuffer, history, tokenVars>>
    /\ UNCHANGED <<sessionVars, initVars, multiLine, line, resolved,
                   waitedInit, lastResult, executionLock, handlerVars,
                   listenerVars, cacheVars, teardown>>
    /\ UNCHANGED connVars

\* waitForInitData returns: an error when its context is cancelled or the
\* initialisation failed (getQuery then drops the line), nil when the client
\* is initialised
ExecWaitInit ==
    /\ execPc = "waitinit"
    /\ \/ /\ queryCtxCancelled \/ (initialisationComplete /\ initError)
          /\ interactiveBuffer' = <<>>
          /\ cancelActiveQuery' = "nil"
          /\ queryCtxCancelled' = TRUE
          /\ execPc' = "restart"
       \/ /\ initialisationComplete /\ ~initError
          /\ execPc' = "resolve"
          /\ UNCHANGED <<interactiveBuffer, tokenVars>>
    /\ UNCHANGED <<sessionVars, initVars, history, multiLine, line, resolved,
                   waitedInit, lastResult, executionLock, handlerVars,
                   listenerVars, cacheVars, teardown>>
    /\ UNCHANGED connVars

\* the rest of getQuery, with its deferred history push and deferred cancel
ExecResolve ==
    /\ execPc = "resolve"
    /\ LET g == getQueryResolved(interactiveBuffer, line, multiLine)
       IN  /\ interactiveBuffer' = g.buffer
           /\ history' = history \o g.history
           /\ resolved' = g.query
           /\ cancelActiveQuery' = IF waitedInit THEN "nil" ELSE cancelActiveQuery
           /\ queryCtxCancelled' =
                IF waitedInit \/ g.restart THEN TRUE ELSE queryCtxCancelled
           /\ promptCancelled' = IF g.restart THEN TRUE ELSE promptCancelled
           /\ execPc' = IF g.query = NoQuery THEN "restart" ELSE "qctx"
    /\ UNCHANGED <<mainPc, afterClose, promptRunning, promptResultChan, initVars,
                   multiLine, line, waitedInit, lastResult, executionLock,
                   handlerVars, listenerVars, cacheVars, teardown>>
    /\ UNCHANGED connVars

\* queryCtx := c.createQueryContext(ctx)
ExecCreateContext ==
    /\ execPc = "qctx"
    /\ cancelActiveQuery' = "set"
    /\ queryCtxCancelled' = promptCancelled
    /\ execPc' = IF IsMetaQuery(resolved) THEN "meta" ELSE "stmt"
    /\ UNCHANGED <<sessionVars, initVars, inputVars, line, resolved, waitedInit,
                   lastResult, executionLock, handlerVars, listenerVars, cacheVars,
                   teardown>>
    /\ UNCHANGED connVars

\* the statement path: c.client().Execute returns
ExecStatement ==
    /\ execPc = "stmt"
    /\ \E out \in {"ok", "error", "cancelled"} :
          /\ out = "cancelled" => queryCtxCancelled
          /\ lastResult' = out
    /\ execPc' = "restart"
    /\ UNCHANGED <<sessionVars, initVars, inputVars, line, resolved, waitedInit,
                   tokenVars, executionLock, handlerVars, listenerVars, cacheVars,
                   teardown>>
    /\ UNCHANGED connVars

\* the directive path: executeMetaquery, then cancelActiveQueryIfAny
ExecMetaquery ==
    /\ execPc = "meta"
    /\ IF ~initialisationComplete
         THEN /\ execPc' = "panic"
              /\ UNCHANGED <<afterClose, lastResult, tokenVars>>
         ELSE /\ \E run \in BOOLEAN :
                    afterClose' = IF run /\ FirstField(resolved) = ExitDirective
                                    THEN "Exit" ELSE afterClose
              /\ lastResult' = "meta"
              /\ cancelActiveQuery' = "nil"
              /\ queryCtxCancelled' = TRUE
              /\ execPc' = "restart"
    /\ UNCHANGED <<mainPc, promptRunning, promptCancelled, promptResultChan,
                   initVars, inputVars, line, resolved, waitedInit, executionLock,
                   handlerVars, listenerVars, cacheVars, teardown>>
    /\ UNCHANGED connVars

\* c.restartInteractiveSession(): ClosePrompt(c.afterClose)
ExecRestart ==
    /\ execPc = "restart"
    /\ promptCancelled' = TRUE
    /\ queryCtxCancelled' = TRUE
    /\ execPc' = "unlock"
    /\ UNCHANGED <<mainPc, afterClose, promptRunning, promptResultChan, initVars,
                   inputVars, line, resolved, waitedInit, lastResult,
                   cancelActiveQuery, executionLock, handlerVars, listenerVars,
                   cacheVars, teardown>>
    /\ UNCHANGED connVars

ExecUnlock_KeepLock ==
    /\ execPc = "unlock"
    /\ executionLock' = IF resolved = NoQuery THEN executionLock
                         ELSE executionLock \ {"executor"}
    /\ execPc' = "idle"
    /\ line' = <<>>
    /\ resolved' = NoQuery
    /\ waitedInit' = FALSE
    /\ lastResult' = "none"
    /\ UNCHANGED <<sessionVars, initVars, inputVars, tokenVars, handlerVars,
                   listenerVars, cacheVars, teardown>>
    /\ UNCHANGED connVars

\* the deferred c.executionLock.Unlock(); executor returns
ExecUnlock ==
    /\ execPc = "unlock"
    /\ executionLock' = executionLock \ {"executor"}
    /\ execPc' = "idle"
    /\ line' = <<>>
    /\ resolved' = NoQuery
    /\ waitedInit' = FALSE
    /\ lastResult' = "none"
    /\ UNCHANGED <<sessionVars, initVars, inputVars, tokenVars, handlerVars,
                   listenerVars, cacheVars, teardown>>
    /\ UNCHANGED connVars


\* ------------------------------------------------ the controller's main loop
\* InteractivePrompt up to its select loop: startCancelHandler,
\* createPromptContext, runInteractivePromptAsync
InteractivePromptStart ==
    /\ mainPc = "begin"
    /\ handlerPc' = "wait"
    /\ promptCancelled' = FALSE
    /\ promptRunning' = TRUE
    /\ mainPc' = "select"
    /\ UNCHANGED <<afterClose, promptResultChan, initVars, inputVars, execVars,
                   tokenVars, executionLock, sigint, quitChannel, listenerVars,
                   cacheVars, teardown>>
    /\ UNCHANGED connVars

\* case initResult := <-c.initResultChan, a Ready result: handleInitResult
\* builds the suggestions and sets the initialised flag
HandleInitReady ==
    /\ mainPc = "select"
    /\ initResultChan = "Ready"
    /\ initResultChan' = "none"
    /\ suggestions' = schemaMetadata
    /\ initialisationComplete' = TRUE
    /\ UNCHANGED <<sessionVars, initPc, initError, inputVars, execVars, tokenVars,
                   executionLock, handlerVars, listenerVars, connectionMap,
                   schemaMetadata, teardown>>
    /\ UNCHANGED connVars

\* a Failed result: handleInitResult shuts the prompt down with
\* ClosePrompt(AfterPromptCloseExit), whose first statement sets afterClose
HandleInitFailed ==
    /\ mainPc = "select"
    /\ initResultChan = "Failed"
    /\ initResultChan' = "none"
    /\ afterClose' = "Exit"
    /\ mainPc' = "initfail1"
    /\ UNCHANGED <<promptRunning, promptCancelled, promptResultChan, initPc,
                   initError, initialisationComplete, inputVars, execVars,
                   tokenVars, executionLock, handlerVars, listenerVars, cacheVars,
                   teardown>>
    /\ UNCHANGED connVars

\* ClosePrompt, second statement: c.cancelPrompt()
HandleInitFailedCancel ==
    /\ mainPc = "initfail1"
    /\ promptCancelled' = TRUE
    /\ queryCtxCancelled' = TRUE
    /\ mainPc' = "initfail2"
    /\ UNCHANGED <<afterClose, promptRunning, promptResultChan, initVars,
                   inputVars, execVars, cancelActiveQuery, executionLock,
                   handlerVars, listenerVars, cacheVars, teardown>>
    /\ UNCHANGED connVars

\* handleInitResult returns: the initialised flag is set, errors or not
HandleInitFailedDone ==
    /\ mainPc = "initfail2"
    /\ initialisationComplete' = TRUE
    /\ mainPc' = "select"
    /\ UNCHANGED <<afterClose, promptRunning, promptCancelled, promptResultChan,
                   initPc, initResultChan, initError, inputVars, execVars,
                   tokenVars, executionLock, handlerVars, listenerVars, cacheVars,
                   teardown>>
    /\ UNCHANGED connVars

PromptResult_NoPersist ==
    /\ mainPc = "select"
    /\ promptResultChan > 0
    /\ promptResultChan' = promptResultChan - 1
    /\ mainPc' = "check"
    /\ UNCHANGED <<afterClose, promptRunning, promptCancelled, initVars,
                   inputVars, execVars, tokenVars, executionLock, handlerVars,
                   listenerVars, cacheVars, teardown>>
    /\ UNCHANGED connVars

\* case <-promptResultChan: c.interactiveQueryHistory.Persist()
PromptResult ==
    /\ mainPc = "select"
    /\ promptResultChan > 0
    /\ promptResultChan' = promptResultChan - 1
    /\ teardown' = Append(teardown, "persist")
    /\ mainPc' = "check"
    /\ UNCHANGED <<afterClose, promptRunning, promptCancelled, initVars,
                   inputVars, execVars, tokenVars, executionLock, handlerVars,
                   listenerVars, cacheVars>>
    /\ UNCHANGED connVars

\* c.afterClose == AfterPromptCloseExit: stop the notification listener if
\* there is one, and return
PromptResultExit ==
    /\ mainPc = "check"
    /\ afterClose = "Exit"
    /\ IF cancelNotificationListener
         THEN /\ listenerCancelled' = TRUE
              /\ teardown' = Append(teardown, "stopListener")
         ELSE UNCHANGED <<listenerCancelled, teardown>>
    /\ mainPc' = "deferred"
    /\ UNCHANGED <<afterClose, promptRunning, promptCancelled, promptResultChan,
                   initVars, inputVars, execVars, tokenVars, executionLock,
                   handlerVars, listenerPc, cancelNotificationListener, dbVersion,
                   pendingNotifications, cycleError, cacheVars>>
    /\ UNCHANGED notification
    /\ UNCHANGED connVars

PromptResultRestart_Always ==
    /\ mainPc = "check"
    /\ promptCancelled' = FALSE
    /\ promptRunning' = TRUE
    /\ teardown' = <<>>
    /\ mainPc' = "select"
    /\ UNCHANGED <<afterClose, promptResultChan, initVars, inputVars, execVars,
                   tokenVars, executionLock, handlerVars, listenerVars, cacheVars>>
    /\ UNCHANGED connVars

\* otherwise: createPromptContext and runInteractivePromptAsync again
PromptResultRestart ==
    /\ mainPc = "check"
    /\ afterClose # "Exit"
    /\ promptCancelled' = FALSE
    /\ promptRunning' = TRUE
    /\ teardown' = <<>>
    /\ mainPc' = "select"
    /\ UNCHANGED <<afterClose, promptResultChan, initVars, inputVars, execVars,
                   tokenVars, executionLock, handlerVars, listenerVars, cacheVars>>
    /\ UNCHANGED connVars

\* quitChannel := make(chan bool, 1)
QuitChannelCapacity == 1

DeferredQuit_Unbuffered ==
    /\ mainPc = "deferred"
    /\ handlerPc = "wait"
    /\ quitChannel' = quitChannel + 1
    /\ teardown' = Append(teardown, "quit")
    /\ mainPc' = "cleanup"
    /\ UNCHANGED <<afterClose, promptRunning, promptCancelled, promptResultChan,
                   initVars, inputVars, execVars, tokenVars, executionLock,
                   handlerPc, sigint, listenerVars, cacheVars>>
    /\ UNCHANGED connVars

\* the deferred function: quitChannel <- true, a send that waits while the
\* channel is full; close(quitChannel)
DeferredQuit ==
    /\ mainPc = "deferred"
    /\ quitChannel < QuitChannelCapacity
    /\ quitChannel' = quitChannel + 1
    /\ teardown' = Append(teardown, "quit")
    /\ mainPc' = "cleanup"
    /\ UNCHANGED <<afterClose, promptRunning, promptCancelled, promptResultChan,
                   initVars, inputVars, execVars, tokenVars, executionLock,
                   handlerPc, sigint, listenerVars, cacheVars>>
    /\ UNCHANGED connVars

\* c.initData.Cleanup(ctx); c.promptResult.Streamer.Close()
DeferredClose ==
    /\ mainPc = "cleanup"
    /\ teardown' = Append(teardown, "closeSink")
    /\ mainPc' = "done"
    /\ UNCHANGED <<afterClose, promptRunning, promptCancelled, promptResultChan,
                   initVars, inputVars, execVars, tokenVars, executionLock,
                   handlerVars, listenerVars, cacheVars>>
    /\ UNCHANGED connVars

\* ------------------------------------------------------ the interrupt handler
Interrupt_AlwaysClose ==
    /\ handlerPc = "wait"
    /\ handlerPc' = "closed"
    /\ afterClose' = "Exit"
    /\ promptCancelled' = TRUE
    /\ queryCtxCancelled' = TRUE
    /\ sigint' = IF ~initialisationComplete THEN sigint
                 ELSE IF execPc \in {"idle", "stmt"} THEN execPc ELSE sigint
    /\ UNCHANGED <<mainPc, promptRunning, promptResultChan, initVars, inputVars,
                   execVars, cancelActiveQuery, executionLock, quitChannel,
                   listenerVars, cacheVars, teardown>>
    /\ UNCHANGED connVars

Interrupt_NoCancel ==
    /\ handlerPc = "wait"
    /\ IF ~initialisationComplete
         THEN /\ handlerPc' = "close1"
              /\ UNCHANGED sigint
         ELSE /\ handlerPc' = "wait"
              /\ sigint' = IF execPc \in {"idle", "stmt"} THEN execPc ELSE sigint
    /\ UNCHANGED <<sessionVars, initVars, inputVars, execVars, tokenVars,
                   executionLock, quitChannel, listenerVars, cacheVars, teardown>>
    /\ UNCHANGED connVars

\* case <-sigIntChannel: before initialisation the prompt is closed, after it
\* the active query, if any, is cancelled
Interrupt ==
    /\ handlerPc = "wait"
    /\ IF ~initialisationComplete
         THEN /\ handlerPc' = "close1"
              /\ UNCHANGED <<sigint, tokenVars>>
         ELSE /\ handlerPc' = "wait"
              /\ sigint' = IF execPc \in {"idle", "stmt"} THEN execPc ELSE sigint
              /\ cancelActiveQuery' = "nil"
              /\ queryCtxCancelled' =
                   IF cancelActiveQuery # "nil" THEN TRUE ELSE queryCtxCancelled
    /\ UNCHANGED <<sessionVars, initVars, inputVars, execVars, executionLock,
                   quitChannel, listenerVars, cacheVars, teardown>>
    /\ UNCHANGED connVars

\* ClosePrompt(AfterPromptCloseExit), first statement
InterruptClose ==
    /\ handlerPc = "close1"
    /\ afterClose' = "Exit"
    /\ handlerPc' = "close2"
    /\ UNCHANGED <<mainPc, promptRunning, promptCancelled, promptResultChan,
                   initVars, inputVars, execVars, tokenVars, executionLock, sigint,
                   quitChannel, listenerVars, cacheVars, teardown>>
    /\ UNCHANGED connVars

\* ClosePrompt, second statement: c.cancelPrompt(); the handler returns
InterruptCancelPrompt ==
    /\ handlerPc = "close2"
    /\ promptCancelled' = TRUE
    /\ queryCtxCancelled' = TRUE
    /\ handlerPc' = "closed"
    /\ UNCHANGED <<mainPc, afterClose, promptRunning, promptResultChan, initVars,
                   inputVars, execVars, cancelActiveQuery, executionLock, sigint,
                   quitChannel, listenerVars, cacheVars, teardown>>
    /\ UNCHANGED connVars

\* case <-quitChannel: a final cancelActiveQueryIfAny; the handler returns
HandlerQuit ==
    /\ handlerPc = "wait"
    /\ quitChannel > 0
    /\ quitChannel' = quitChannel - 1
    /\ cancelActiveQuery' = "nil"
    /\ queryCtxCancelled' =
         IF cancelActiveQuery # "nil" THEN TRUE ELSE queryCtxCancelled
    /\ teardown' = Append(teardown, "finalCancel")
    /\ handlerPc' = "quit"
    /\ UNCHANGED <<sessionVars, initVars, inputVars, execVars, executionLock,
                   sigint, listenerVars, cacheVars>>
    /\ UNCHANGED connVars

\* ------------------------------------------------ the initialisation pipeline
\* readInitDataStream: the init data is loaded; on success the schema is
\* loaded and the notification listener started; the result is sent
InitLoaded ==
    /\ initPc = "loading"
    /\ initPc' = "sent"
    /\ \E ok \in BOOLEAN :
         IF ok
           THEN /\ initResultChan' = "Ready"
                /\ connectionMap' = dbVersion
                /\ schemaMetadata' = dbVersion
                /\ listenerPc' = "wait"
                /\ cancelNotificationListener' = TRUE
                /\ UNCHANGED initError
           ELSE /\ initResultChan' = "Failed"
                /\ initError' = TRUE
                /\ UNCHANGED <<connectionMap, schemaMetadata, listenerPc,
                               cancelNotificationListener>>
    /\ UNCHANGED <<sessionVars, initialisationComplete, inputVars, execVars,
                   tokenVars, executionLock, handlerVars, listenerCancelled,
                   dbVersion, pendingNotifications, cycleError, suggestions, teardown>>
    /\ UNCHANGED notification
    /\ UNCHANGED connVars


\* ---------------------------------------------------- notification listener
\* the backend's schema changes and the plugin manager notifies the listeners
SchemaChange ==
    /\ dbVersion < MaxUpdates
    /\ dbVersion' = dbVersion + 1
    /\ pendingNotifications' =
         IF listenerPc \in {"off", "done"} THEN pendingNotifications
         ELSE pendingNotifications + 1
    /\ UNCHANGED <<sessionVars, initVars, inputVars, execVars, tokenVars,
                   executionLock, handlerVars, listenerPc,
                   cancelNotificationListener, listenerCancelled, cycleError,
                   cacheVars, teardown>>
    /\ UNCHANGED notification
    /\ UNCHANGED connVars

ReceiveSchemaUpdate_AfterExit ==
    /\ listenerPc \in {"wait", "done"}
    /\ ~listenerCancelled \/ listenerPc = "done"
    /\ pendingNotifications > 0
    /\ pendingNotifications' = pendingNotifications - 1
    /\ listenerPc' = "loadNames"
    /\ cycleError' = "none"
    /\ notification' = "SchemaUpdate"
    /\ UNCHANGED <<sessionVars, initVars, inputVars, execVars, tokenVars,
                   executionLock, handlerVars, cancelNotificationListener,
                   listenerCancelled, dbVersion, cacheVars, teardown>>
    /\ UNCHANGED connVars

\* conn.WaitForNotification returns a schema-update notification and
\* handlePostgresNotification calls handleConnectionUpdateNotification
ReceiveSchemaUpdate ==
    /\ listenerPc = "wait"
    /\ ~listenerCancelled
    /\ pendingNotifications > 0
    /\ pendingNotifications' = pendingNotifications - 1
    /\ listenerPc' = "loadNames"
    /\ cycleError' = "none"
    /\ notification' = "SchemaUpdate"
    /\ UNCHANGED <<sessionVars, initVars, inputVars, execVars, tokenVars,
                   executionLock, handlerVars, cancelNotificationListener,
                   listenerCancelled, dbVersion, cacheVars, teardown>>
    /\ UNCHANGED connVars

ReceiveOther_AsSchemaUpdate ==
    /\ listenerPc = "wait"
    /\ ~listenerCancelled
    /\ \E kind \in {"garbled", "other"} : notification' = kind
    /\ listenerPc' = "loadNames"
    /\ UNCHANGED <<sessionVars, initVars, inputVars, execVars, tokenVars,
                   executionLock, handlerVars, cancelNotificationListener,
                   listenerCancelled, dbVersion, pendingNotifications,
                   cycleError, cacheVars, teardown>>
    /\ UNCHANGED connVars

\* conn.WaitForNotification returns a notification that json.Unmarshal cannot
\* decode ("garbled") or whose Type is no case of the switch ("other"):
\* handlePostgresNotification logs and returns, and the loop goes on
ReceiveOther ==
    /\ listenerPc = "wait"
    /\ ~listenerCancelled
    /\ \E kind \in {"garbled", "other"} : notification' = kind
    /\ UNCHANGED <<sessionVars, initVars, inputVars, execVars, tokenVars,
                   executionLock, handlerVars, listenerPc,
                   cancelNotificationListener, listenerCancelled, dbVersion,
                   pendingNotifications, cycleError, cacheVars, teardown>>
    /\ UNCHANGED connVars

\* c.client().LoadSchemaNames(ctx): an error is logged and the cycle goes on
\* (the names are held by the client, not by the session)
LoadSchemaNames ==
    /\ listenerPc = "loadNames"
    /\ \E ok \in BOOLEAN : cycleError' = IF ok THEN cycleError ELSE "names"
    /\ listenerPc' = "connectionState"
    /\ UNCHANGED <<sessionVars, initVars, inputVars, execVars, tokenVars,
                   executionLock, handlerVars, cancelNotificationListener,
                   listenerCancelled, dbVersion, pendingNotifications, cacheVars,
                   teardown>>
    /\ UNCHANGED notification
    /\ UNCHANGED connVars

\* steampipeconfig.GetConnectionState; c.initData.ConnectionMap = connectionMap
ReloadConnectionMap ==
    /\ listenerPc = "connectionState"
    /\ \E ok \in BOOLEAN :
         IF ok THEN /\ connectionMap' = dbVersion
                    /\ listenerPc' = "config"
                    /\ UNCHANGED cycleError
         ELSE /\ listenerPc' = "wait"
              /\ cycleError' = "connectionState"
              /\ UNCHANGED connectionMap
    /\ UNCHANGED <<sessionVars, initVars, inputVars, execVars, tokenVars,
                   executionLock, handlerVars, cancelNotificationListener,
                   listenerCancelled, dbVersion, pendingNotifications,
                   schemaMetadata, suggestions, teardown>>
    /\ UNCHANGED notification
    /\ UNCHANGED connVars

\* steampipeconfig.LoadSteampipeConfig; steampipeconfig.GlobalConfig = config
\* (the global configuration is not session state)
ReloadConfig ==
    /\ listenerPc = "config"
    /\ \E ok \in BOOLEAN :
         IF ok THEN /\ listenerPc' = "schema"
                    /\ UNCHANGED cycleError
         ELSE /\ listenerPc' = "wait"
              /\ cycleError' = "config"
    /\ UNCHANGED <<sessionVars, initVars, inputVars, execVars, tokenVars,
                   executionLock, handlerVars, cancelNotificationListener,
                   listenerCancelled, dbVersion, pendingNotifications, cacheVars,
                   teardown>>
    /\ UNCHANGED notification
    /\ UNCHANGED connVars

\* c.loadSchema(): c.schemaMetadata = metadata
ReloadSchema ==
    /\ listenerPc = "schema"
    /\ \E ok \in BOOLEAN :
         IF ok THEN /\ schemaMetadata' = dbVersion
                    /\ listenerPc' = "suggestions"
                    /\ UNCHANGED cycleError
         ELSE /\ listenerPc' = "wait"
              /\ cycleError' = "schema"
              /\ UNCHANGED schemaMetadata
    /\ UNCHANGED <<sessionVars, initVars, inputVars, execVars, tokenVars,
                   executionLock, handlerVars, cancelNotificationListener,
                   listenerCancelled, dbVersion, pendingNotifications,
                   connectionMap, suggestions, teardown>>
    /\ UNCHANGED notification
    /\ UNCHANGED connVars

\* c.initialiseSuggestions()
ReloadSuggestions ==
    /\ listenerPc = "suggestions"
    /\ suggestions' = schemaMetadata
    /\ listenerPc' = "lock"
    /\ UNCHANGED <<sessionVars, initVars, inputVars, execVars, tokenVars,
                   executionLock, handlerVars, cancelNotificationListener,
                   listenerCancelled, dbVersion, pendingNotifications, cycleError,
                   connectionMap, schemaMetadata, teardown>>
    /\ UNCHANGED notification
    /\ UNCHANGED connVars

RefreshLock_NoWait ==
    /\ listenerPc = "lock"
    /\ executionLock' = executionLock \cup {"listener"}
    /\ listenerPc' = "refresh"
    /\ UNCHANGED <<sessionVars, initVars, inputVars, execVars, tokenVars,
                   handlerVars, cancelNotificationListener, listenerCancelled,
                   dbVersion, pendingNotifications, cycleError, cacheVars, teardown>>
    /\ UNCHANGED notification
    /\ UNCHANGED connVars

\* c.executionLock.Lock() of handleConnectionUpdateNotification
RefreshLock ==
    /\ listenerPc = "lock"
    /\ executionLock = {}
    /\ executionLock' = executionLock \cup {"listener"}
    /\ listenerPc' = "refresh"
    /\ UNCHANGED <<sessionVars, initVars, inputVars, execVars, tokenVars,
                   handlerVars, cancelNotificationListener, listenerCancelled,
                   dbVersion, pendingNotifications, cycleError, cacheVars, teardown>>
    /\ UNCHANGED notification
    /\ UNCHANGED connVars

\* c.client().RefreshSessions(ctx) and the deferred Unlock
RefreshSessions ==
    /\ listenerPc = "refresh"
    /\ executionLock' = executionLock \ {"listener"}
    /\ listenerPc' = "wait"
    /\ UNCHANGED <<sessionVars, initVars, inputVars, execVars, tokenVars,
                   handlerVars, cancelNotificationListener, listenerCancelled,
                   dbVersion, pendingNotifications, cycleError, cacheVars, teardown>>
    /\ UNCHANGED notification
    /\ UNCHANGED connVars

\* the loop of listenToPgNotifications ends: ctx.Err() # nil; conn.Close
ListenerExit ==
    /\ listenerPc = "wait"
    /\ listenerCancelled
    /\ listenerPc' = "done"
    /\ UNCHANGED <<sessionVars, initVars, inputVars, execVars, tokenVars,
                   executionLock, handlerVars, cancelNotificationListener,
                   listenerCancelled, dbVersion, pendingNotifications,
                   cycleError, cacheVars, teardown>>
    /\ UNCHANGED notification
    /\ UNCHANGED connVars

\* ------------------------------------------------------------ specification
ExecutorStep ==
    \/ ExecLock
    \/ ExecSetAfterClose
    \/ ExecGetQuery
    \/ ExecWaitInit
    \/ ExecResolve
    \/ ExecCreateContext
    \/ ExecStatement
    \/ ExecMetaquery
    \/ ExecRestart
    \/ ExecUnlock

ControllerStep ==
    \/ InteractivePromptStart
    \/ HandleInitReady
    \/ HandleInitFailed
    \/ HandleInitFailedCancel
    \/ HandleInitFailedDone
    \/ PromptResult
    \/ PromptResultExit
    \/ PromptResultRestart
    \/ DeferredQuit
    \/ DeferredClose

InterruptStep ==
    \/ Interrupt
    \/ InterruptClose
    \/ InterruptCancelPrompt

InvalidationStep ==
    \/ SchemaChange
    \/ ReceiveSchemaUpdate
    \/ LoadSchemaNames
    \/ ReloadConnectionMap
    \/ ReloadConfig
    \/ ReloadSchema
    \/ ReloadSuggestions
    \/ RefreshLock
    \/ RefreshSessions

\* every goroutine of the session; the lines submitted are executed at once
Next ==
    \/ SubmitLine
    \/ ControlD
    \/ PromptExit
    \/ ExecutorStep
    \/ ControllerStep
    \/ InterruptStep
    \/ HandlerQuit
    \/ InitLoaded
    \/ InvalidationStep
    \/ ReceiveOther
    \/ ListenerExit

Spec == Init /\ [][Next]_vars

\* the runs in which the backend's schema does not change
NextPrompt ==
    \/ SubmitPromptLine
    \/ breakMultilinePrompt
    \/ ControlD
    \/ PromptExit
    \/ ExecutorStep
    \/ ControllerStep
    \/ InterruptStep
    \/ HandlerQuit
    \/ InitLoaded
    \/ ReceiveOther
    \/ ListenerExit

SpecPrompt == Init /\ [][NextPrompt]_vars

\* the runs of SpecPrompt in which the goroutine of InteractivePrompt does
\* not stop while it can take a step
SpecPromptFair == SpecPrompt /\ WF_vars(ControllerStep)

\* the goroutine of listenToPgNotifications, once it has a notification or
\* a cancelled context
ListenerStep ==
    \/ LoadSchemaNames
    \/ ReloadConnectionMap
    \/ ReloadConfig
    \/ ReloadSchema
    \/ ReloadSuggestions
    \/ RefreshLock
    \/ RefreshSessions
    \/ ListenerExit

\* the runs of Spec in which the listener does not stop while it can take a
\* step
SpecListener == Spec /\ WF_vars(ListenerStep)

\* the runs with neither a schema change nor an interrupt: the input resolver
\* on every kind of line
NextInput ==
    \/ SubmitAnyLine
    \/ breakMultilinePrompt
    \/ ControlD
    \/ PromptExit
    \/ ExecutorStep
    \/ ControllerStep
    \/ HandlerQuit
    \/ InitLoaded
    \/ ListenerExit

SpecInput == Init /\ [][NextInput]_vars

\* the lines submitted in the runs about the execution lock: an empty line,
\* a line without terminator, a statement, a directive, a reference that
\* does not resolve
LockLines == { <<>>, <<"s">>, <<"1", SEMI>>, HelpDirective, UnknownQueryText }

SubmitLockLine == callExecutor(LockLines)

\* the runs with invalidation cycles and every exit path of the executor
NextLock ==
    \/ SubmitLockLine
    \/ PromptExit
    \/ ExecutorStep
    \/ ControllerStep
    \/ InterruptStep
    \/ HandlerQuit
    \/ InitLoaded
    \/ InvalidationStep
    \/ ListenerExit

\* no goroutine that can take a step stops for ever: the executor, the
\* controller, the initialisation, the read loop's return and the refresh of
\* the listener; a goroutine blocked in Lock gets the lock when it is freed
\* again and again (sync.Mutex hands the lock over to a starving waiter)
SpecLock ==
    /\ Init
    /\ [][NextLock]_vars
    /\ WF_vars(ExecutorStep)
    /\ WF_vars(ControllerStep)
    /\ WF_vars(InitLoaded)
    /\ WF_vars(PromptExit)
    /\ SF_vars(ExecLock)
    /\ SF_vars(RefreshLock)
    /\ WF_vars(RefreshSessions)

\* ------------------------------------------------- loading the connections
\* the lists of child names
RECURSIVE ChildNameLists(_)
ChildNameLists(n) ==
    IF n = 0 THEN {<<>>}
    ELSE ChildNameLists(n - 1)
           \cup { Append(l, e) : l \in {x \in ChildNameLists(n - 1) : Len(x) = n - 1},
                                 e \in ChildEntries }

\* a parsed configuration: the connection "a" with any type and child names,
\* connections b1 and b2, and possibly a connection c, before the children
\* of "a" are populated; the session is not started
InitConnections ==
    /\ mainPc = "begin"
    /\ afterClose = "Exit"
    /\ promptRunning = FALSE
    /\ promptCancelled = FALSE
    /\ promptResultChan = 0
    /\ initPc = "loading"
    /\ initResultChan = "none"
    /\ initError = FALSE
    /\ initialisationComplete = FALSE
    /\ interactiveBuffer = <<>>
    /\ history = <<>>
    /\ multiLine = FALSE
    /\ execPc = "idle"
    /\ line = <<>>
    /\ resolved = NoQuery
    /\ waitedInit = FALSE
    /\ lastResult = "none"
    /\ cancelActiveQuery = "nil"
    /\ queryCtxCancelled = TRUE
    /\ executionLock = {}
    /\ handlerPc = "none"
    /\ sigint = "none"
    /\ quitChannel = 0
    /\ listenerPc = "off"
    /\ cancelNotificationListener = FALSE
    /\ listenerCancelled = FALSE
    /\ dbVersion = 0
    /\ pendingNotifications = 0
    /\ cycleError = "none"
    /\ notification = "none"
    /\ connectionMap = 0
    /\ schemaMetadata = 0
    /\ suggestions = 0
    /\ teardown = <<>>
    /\ connPc = "loaded"
    /\ \E type \in ConnectionTypes, names \in ChildNameLists(MaxChildren),
          pluginB2 \in Plugins, pluginC \in Plugins,
          typeC \in {"", ConnectionTypeAggregator}, hasC \in BOOLEAN :
         configConnections =
           [name \in (IF hasC THEN ConnectionNameSet ELSE ConnectionNameSet \ {<<"c">>}) |->
              IF name = AggregatorName
                THEN [Name |-> name, Plugin |-> "P", Type |-> type, ConnectionNames |-> names]
              ELSE IF name = <<"b", "1">>
                THEN [Name |-> name, Plugin |-> "P", Type |-> "", ConnectionNames |-> <<>>]
              ELSE IF name = <<"b", "2">>
                THEN [Name |-> name, Plugin |-> pluginB2, Type |-> "", ConnectionNames |-> <<>>]
              ELSE [Name |-> name, Plugin |-> pluginC, Type |-> typeC, ConnectionNames |-> <<>>]]
    /\ Connections = {}
    /\ ResolvedConnectionNames = {}
    /\ populateIdx = 0
    /\ validation = "none"

\* PopulateChildren is called for the aggregator connection, for the first
\* time or again: c.Connections = make(map[string]*Connection)
CallPopulateChildren ==
    /\ connPc \in {"loaded", "populated"}
    /\ configConnections[AggregatorName].Type = ConnectionTypeAggregator
    /\ Connections' = {}
    /\ populateIdx' = 1
    /\ connPc' = "populating"
    /\ UNCHANGED <<configConnections, ResolvedConnectionNames, validation>>
    /\ UNCHANGED <<sessionVars, initVars, inputVars, execVars, tokenVars, executionLock,
                   handlerVars, listenerVars, cacheVars, teardown>>

\* one turn of the loop over c.ConnectionNames; a range over the map yields
\* the keys in an order that is not defined
PopulateNextChild ==
    /\ connPc = "populating"
    /\ populateIdx <= Len(configConnections[AggregatorName].ConnectionNames)
    /\ \E order \in KeyOrders(configConnections) :
         Connections' =
           PopulateChild(configConnections[AggregatorName].ConnectionNames[populateIdx],
                         configConnections[AggregatorName], configConnections,
                         order, Connections)
    /\ populateIdx' = populateIdx + 1
    /\ UNCHANGED <<connPc, configConnections, ResolvedConnectionNames, validation>>
    /\ UNCHANGED <<sessionVars, initVars, inputVars, execVars, tokenVars, executionLock,
                   handlerVars, listenerVars, cacheVars, teardown>>

\* the loop is over: c.ResolvedConnectionNames = maps.Keys(c.Connections)
PopulateChildrenReturn ==
    /\ connPc = "populating"
    /\ populateIdx > Len(configConnections[AggregatorName].ConnectionNames)
    /\ ResolvedConnectionNames' = Connections
    /\ populateIdx' = 0
    /\ connPc' = "populated"
    /\ UNCHANGED <<configConnections, Connections, validation>>
    /\ UNCHANGED <<sessionVars, initVars, inputVars, execVars, tokenVars, executionLock,
                   handlerVars, listenerVars, cacheVars, teardown>>

\* the connection is validated: an aggregator after its children are
\* populated, any other connection as parsed
CallValidate ==
    /\ \/ connPc = "populated"
       \/ /\ connPc = "loaded"
          /\ configConnections[AggregatorName].Type # ConnectionTypeAggregator
    /\ validation' = Validate(configConnections[AggregatorName], Connections,
                              configConnections)
    /\ connPc' = "validated"
    /\ UNCHANGED <<configConnections, Connections, ResolvedConnectionNames,
                   populateIdx>>
    /\ UNCHANGED <<sessionVars, initVars, inputVars, execVars, tokenVars, executionLock,
                   handlerVars, listenerVars, cacheVars, teardown>>

NextConnections ==
    \/ CallPopulateChildren
    \/ PopulateNextChild
    \/ PopulateChildrenReturn
    \/ CallValidate

SpecConnections == InitConnections /\ [][NextConnections]_vars

\* ------------------------------------------------------------- properties
\* the executor holds (or believes it holds) the execution lock
ExecHolding ==
    execPc \in {"locked", "getq", "waitinit", "resolve", "qctx", "stmt", "meta",
                "restart", "unlock", "panic"}

\* the lifecycle state of the session
SessionState ==
    IF mainPc = "begin" THEN "Starting"
    ELSE IF mainPc \in {"deferred", "cleanup", "done"} THEN "Closing"
    ELSE IF promptRunning THEN "Running"
    ELSE "Restarting"

\* C1: while the executor holds the execution lock, no step of the
\* notification listener changes the cached connection map, schema metadata
\* or suggestions
C1_CacheStableDuringExecution ==
    [][("executor" \in executionLock /\ listenerPc' # listenerPc)
         => UNCHANGED cacheVars]_vars

\* C2: at most one holder of the execution lock at any time; the executor is
\* between Lock and Unlock exactly when it is the holder, and the session
\* refresh of an invalidation never overlaps an executor call
C2_MutualExclusion ==
    /\ Cardinality(executionLock) <= 1
    /\ ExecHolding <=> "executor" \in executionLock
    /\ listenerPc = "refresh" <=> "listener" \in executionLock
    /\ ~(ExecHolding /\ listenerPc = "refresh")

\* C2 witness: an invalidation waits for the lock an executor call holds
C2_Contention ==
    /\ execPc = "stmt"
    /\ listenerPc = "lock"
    /\ executionLock = {"executor"}

\* C3: once the handler has served an interrupt received before
\* initialisation completed (afterClose set to Exit, prompt cancelled), the
\* session has no live read loop again and executes no statement
C3_PreInitInterruptCloses ==
    handlerPc = "closed"
      => /\ ~(promptRunning /\ ~promptCancelled)
         /\ execPc # "stmt"

\* C4: once a Failed InitResult has been handled, the read loop is not
\* relaunched and no statement or directive starts executing
C4_InitFailureCloses ==
    [][(initError /\ initialisationComplete)
         => /\ ~(~promptRunning /\ promptRunning')
            /\ ~(execPc \notin {"stmt", "meta"} /\ execPc' \in {"stmt", "meta"})]_vars

\* C5: a statement is sent to the executor and a directive is handled only
\* once initialisation has completed; executeMetaquery never panics
C5_NoExecutionBeforeInit ==
    /\ execPc # "panic"
    /\ execPc \in {"qctx", "stmt", "meta"} => initialisationComplete

\* C5 witness: a directive submitted before initialisation completed was held
\* in its executor call and is handled now
C5_HeldLineExecutes ==
    /\ waitedInit
    /\ execPc = "meta"
    /\ initialisationComplete

C7_IdleInterruptNoOp ==
    [][(Interrupt /\ initialisationComplete /\ execPc = "idle")
         => /\ handlerPc' = "wait"
            /\ UNCHANGED <<sessionVars, inputVars, execVars>>
            /\ SessionState' = SessionState]_vars

\* C7 witness: an interrupt was served at an idle prompt with a buffered line
\* and a history entry, and the read loop is still running
C7_IdleInterruptServed ==
    /\ sigint = "idle"
    /\ SessionState = "Running"
    /\ ~promptCancelled
    /\ execPc = "idle"
    /\ interactiveBuffer # <<>>
    /\ history # <<>>

\* C8: after initialisation, an interrupt served while a statement executes
\* cancels the context of that statement and nothing else; the executor call
\* of a statement ends with afterClose = Restart, and a statement that starts
\* gets a context that is not cancelled and whose cancel function is in the slot
C8_InterruptCancelsStatementOnly ==
    [][/\ (Interrupt /\ initialisationComplete /\ execPc = "stmt"
              /\ cancelActiveQuery # "nil")
          => /\ queryCtxCancelled'
             /\ handlerPc' = "wait"
             /\ UNCHANGED <<sessionVars, inputVars, execVars>>
       /\ (handlerPc = "wait" /\ ~initError /\ execPc = "restart"
              /\ lastResult \in {"ok", "error", "cancelled"})
          => afterClose = "Restart"
       /\ (handlerPc = "wait" /\ ~initError /\ execPc = "qctx" /\ execPc' = "stmt")
          => /\ ~queryCtxCancelled'
             /\ cancelActiveQuery' = "set"]_vars

\* C8 witness: a statement runs with a fresh token after an interrupt
\* cancelled an earlier statement
C8_StatementAfterCancelledStatement ==
    /\ sigint = "stmt"
    /\ execPc = "stmt"
    /\ history # <<>>
    /\ ~queryCtxCancelled
    /\ cancelActiveQuery = "set"
    /\ promptRunning

C10_MultilineBuffering ==
    [][(/\ execPc = "resolve" /\ execPc' # "resolve"
        /\ multiLine
        /\ line # <<>>
        /\ ~IsMetaQuery(line)
        /\ line # NamedQueryText
        /\ FirstField(Join(Append(interactiveBuffer, line))) # UnknownQueryText)
         => LET joined == Join(Append(interactiveBuffer, line))
            IN  IF joined[Len(joined)] # SEMI
                  THEN /\ interactiveBuffer' = Append(interactiveBuffer, line)
                       /\ history' = history
                       /\ resolved' = NoQuery
                       /\ execPc' = "restart"
                  ELSE interactiveBuffer # <<>>
                         => /\ interactiveBuffer' = <<>>
                            /\ history' = Append(history, joined)
                            /\ resolved' = joined
                            /\ execPc' = "qctx"]_vars

\* C10 witness: "s" then "1;" executes the two lines joined by a newline, with
\* that text as the only history entry and an empty buffer
C10_JoinedStatementExecutes ==
    /\ execPc = "stmt"
    /\ resolved = <<"s", NL, "1", SEMI>>
    /\ history = <<resolved>>
    /\ interactiveBuffer = <<>>

\* C11: with multi-line mode off, getQuery on a non-empty line that resolves
\* without error and is not the bare terminator returns the query to execute
\* whether or not the line ends with the terminator, pushes the line as the
\* one history entry and leaves the buffer empty
C11_SingleLineExecutes ==
    [][(/\ execPc = "resolve" /\ execPc' # "resolve"
        /\ ~multiLine
        /\ line # <<>>
        /\ line # <<SEMI>>
        /\ FirstField(Join(Append(interactiveBuffer, line))) # UnknownQueryText)
         => /\ execPc' = "qctx"
            /\ resolved' = IF line = NamedQueryText THEN NamedQuerySQL ELSE line
            /\ history' = Append(history, line)
            /\ interactiveBuffer' = <<>>]_vars

\* C11 witness: with multi-line mode off the line "s", which has no
\* terminator, is executing, is the only history entry, and the buffer is empty
C11_UnterminatedLineExecutes ==
    /\ ~multiLine
    /\ execPc = "stmt"
    /\ resolved = <<"s">>
    /\ history = << <<"s">> >>
    /\ interactiveBuffer = <<>>

\* C12 as stated: with multi-line mode on, getQuery on a directive or a named
\* reference returns it for execution whatever the buffer holds
C12_DirectiveAlwaysExecutes ==
    [][(/\ execPc = "resolve" /\ execPc' # "resolve"
        /\ multiLine
        /\ (IsMetaQuery(line) \/ line = NamedQueryText))
         => execPc' = "qctx"]_vars

\* C12 amended: with multi-line mode on, a directive or a named reference
\* without terminator is returned for execution, with the line as history
\* entry, when the buffer is empty; when the buffer holds lines, it is joined
\* to them and, the joined text having no terminator, kept in the buffer with
\* no execution and no history entry
C12_DirectiveExecutesOnEmptyBuffer ==
    [][(/\ execPc = "resolve" /\ execPc' # "resolve"
        /\ multiLine
        /\ (IsMetaQuery(line) \/ line = NamedQueryText)
        /\ line[Len(line)] # SEMI)
         => IF interactiveBuffer = <<>>
              THEN /\ execPc' = "qctx"
                   /\ resolved' = IF line = NamedQueryText THEN NamedQuerySQL ELSE line
                   /\ history' = Append(history, line)
                   /\ interactiveBuffer' = <<>>
              ELSE /\ execPc' = "restart"
                   /\ resolved' = NoQuery
                   /\ history' = history
                   /\ interactiveBuffer' = Append(interactiveBuffer, line)]_vars

\* C12 witness: with multi-line mode on, a directive was executed from an
\* empty buffer and a later directive was buffered behind the line "s"
C12_DirectiveExecutedThenBuffered ==
    /\ multiLine
    /\ history = <<HelpDirective>>
    /\ interactiveBuffer = << <<"s">>, ExitDirective >>
    /\ execPc = "restart"

C15_ResolutionErrorContinues ==
    [][/\ (/\ execPc = "resolve" /\ execPc' # "resolve"
           /\ ResolveQuery(Join(Append(interactiveBuffer, line))).err)
          => /\ interactiveBuffer' = <<>>
             /\ resolved' = NoQuery
             /\ history' = Append(history, line)
             /\ execPc' = "restart"
             /\ UNCHANGED <<mainPc, afterClose, promptRunning, lastResult>>
       /\ (execPc \in {"restart", "unlock"} /\ line = UnknownQueryText /\ ~initError)
          => /\ afterClose = "Restart"
             /\ lastResult = "none"
             /\ execPc' \in {"restart", "unlock", "idle"}]_vars

\* C15 witness: after a reference that failed to resolve, the read loop runs
\* again and the next line is executed on its own
C15_NextLineAfterError ==
    /\ history = << UnknownQueryText, <<"1", SEMI>> >>
    /\ execPc = "stmt"
    /\ resolved = <<"1", SEMI>>
    /\ interactiveBuffer = <<>>
    /\ promptRunning /\ ~promptCancelled
    /\ mainPc = "select"

\* C16: once the children of the aggregator are populated, every resolved
\* member has the aggregator's plugin, is not an aggregator and is not the
\* aggregator itself
C16_MembersCompatible ==
    connPc \in {"populated", "validated"}
      => \A name \in Connections :
           /\ configConnections[name].Plugin = configConnections[AggregatorName].Plugin
           /\ configConnections[name].Type # ConnectionTypeAggregator
           /\ name # AggregatorName

\* C17: PopulateChildren resolves the child names to the names that literally
\* name a connection plus the connections that are no aggregator, have the
\* aggregator's plugin and match one of the other entries as a pattern;
\* ResolvedConnectionNames and GetResolveConnectionNames hold the same names
C17_ResolvedSet ==
    (/\ connPc \in {"populated", "validated"}
     /\ configConnections[AggregatorName].Type = ConnectionTypeAggregator)
      => LET c == configConnections[AggregatorName]
             entries == {c.ConnectionNames[i] : i \in 1..Len(c.ConnectionNames)}
             literal == entries \cap DOMAIN configConnections
             patterns == entries \ DOMAIN configConnections
             expected == literal \cup
                           { name \in DOMAIN configConnections :
                               /\ configConnections[name].Type # ConnectionTypeAggregator
                               /\ configConnections[name].Plugin = c.Plugin
                               /\ \E p \in patterns : Match(p, name) }
         IN  /\ Connections = expected
             /\ ResolvedConnectionNames = expected
             /\ GetResolveConnectionNames(Connections) = expected

\* C17 witness: children ["b*", "c"] of plugin P over b1(P), b2(Q) and c(P)
\* resolve to b1 and c
C17_ExampleResolved ==
    /\ connPc = "populated"
    /\ configConnections[AggregatorName].ConnectionNames = << <<"b", "*">>, <<"c">> >>
    /\ configConnections[<<"b", "2">>].Plugin = "Q"
    /\ <<"c">> \in DOMAIN configConnections
    /\ configConnections[<<"c">>].Plugin = "P"
    /\ configConnections[<<"c">>].Type = ""
    /\ ResolvedConnectionNames = { <<"b", "1">>, <<"c">> }

\* C18: Validate returns no error and no warning exactly for a connection that
\* meets the rules: a valid type; for an aggregator at least one child, no
\* duplicate child name and every resolved child on the aggregator's plugin
\* (one error for each that is not); for any other connection no child names
C18_ValidateRules ==
    connPc = "validated"
      => LET c == configConnections[AggregatorName]
             mismatched == {n \in Connections : configConnections[n].Plugin # c.Plugin}
             duplicates == \E i, j \in 1..Len(c.ConnectionNames) :
                              i # j /\ c.ConnectionNames[i] = c.ConnectionNames[j]
             rulesMet == /\ c.Type \in {"", ConnectionTypeAggregator}
                         /\ c.Type = ConnectionTypeAggregator
                              => Connections # {} /\ ~duplicates /\ mismatched = {}
                         /\ c.Type # ConnectionTypeAggregator
                              => c.ConnectionNames = <<>>
         IN  /\ (validation.errors = {} /\ validation.warnings = {}) <=> rulesMet
             /\ (c.Type = ConnectionTypeAggregator /\ Connections # {})
                  => Cardinality(validation.errors) = Cardinality(mismatched)

\* C19: a step of an invalidation cycle that fails (the reload of the foreign
\* schema names, the connection map, the configuration or the schema
\* metadata) ends the cycle: the listener goes back to waiting for the next
\* event, no later step has run, and the session stays as it was.
C19_FailedStepEndsCycle ==
    [][cycleError' \notin {"none", cycleError} =>
         /\ listenerPc' = "wait"
         /\ UNCHANGED <<sessionVars, cacheVars, teardown>>]_vars

\* C20: outside an invalidation cycle, a failed one included, the connection
\* map, the schema metadata and the suggestions of an initialised client are
\* of one version: all from before the cycle or all from after it.
C20_CachesRefreshedTogether ==
    (listenerPc = "wait" /\ initialisationComplete /\ ~initError) =>
        (connectionMap = schemaMetadata /\ schemaMetadata = suggestions)

\* C21: receiving a notification that does not decode, or whose tag is not
\* SchemaUpdate, leaves the connection map, the schema metadata, the
\* suggestions and the session as they were, takes no execution lock and
\* leaves the listener waiting for the next notification.
C21_OtherNotificationIgnored ==
    [][(notification' # notification /\ notification' \in {"garbled", "other"}) =>
         /\ listenerPc = "wait" /\ listenerPc' = "wait"
         /\ UNCHANGED <<cacheVars, sessionVars, initVars, inputVars, execVars,
                        tokenVars, executionLock, cycleError, teardown>>]_vars

\* a garbled notification is dropped while an executor call holds the
\* execution lock, after an invalidation cycle that refreshed the caches;
\* the listener waits on
C21_GarbledDroppedDuringExecution ==
    /\ notification = "garbled"
    /\ listenerPc = "wait"
    /\ ~listenerCancelled
    /\ ExecHolding
    /\ suggestions = 1

\* C22: the execution lock is released on every exit path of an executor
\* call and of an invalidation: it is free whenever no executor call and no
\* session refresh is in progress, an invalidation waiting for it gets it,
\* and a submitted line gets it after an invalidation.
C22_LockAlwaysReleased ==
    /\ [](executionLock =
            (IF ExecHolding THEN {"executor"} ELSE {})
              \cup (IF listenerPc = "refresh" THEN {"listener"} ELSE {}))
    /\ (listenerPc = "lock") ~> (listenerPc = "refresh")
    /\ (execPc = "start") ~> ExecHolding

\* after an executor call that buffered its line and returned, the listener
\* holds the lock for its refresh and the next submitted line waits for it
C22_LineWaitsForRefresh ==
    /\ listenerPc = "refresh"
    /\ execPc = "start"
    /\ executionLock = {"listener"}
    /\ interactiveBuffer # <<>>

\* C23: once the controller has received a terminal event of the read loop
\* and afterClose is Exit, the teardown runs to its end, the closing of the
\* output sink: no step of it waits for ever, whether or not the
\* initialisation result has arrived or been consumed and whether or not the
\* interrupt handler still runs.
C23_TeardownCompletes ==
    /\ [](mainPc \in {"check", "deferred", "cleanup"} => ENABLED ControllerStep)
    /\ (mainPc = "check" /\ afterClose = "Exit") ~>
          (mainPc = "done" /\ teardown[Len(teardown)] = "closeSink")

\* the teardown ended although the handler had returned after an interrupt
\* received before initialisation and the initialisation result was never
\* consumed
C23_ClosedWithoutHandlerAndResult ==
    /\ mainPc = "done"
    /\ handlerPc = "closed"
    /\ initResultChan # "none"
    /\ quitChannel = QuitChannelCapacity

\* C24: the session moves only from Starting to Running, from Running to
\* Restarting, from Restarting to Running and from Running or Restarting to
\* Closing. A read loop is launched only at the start and by the controller
\* after a terminal event with afterClose = Restart, with a prompt context
\* that is not cancelled and while no read loop runs; after a terminal event
\* with afterClose = Exit the session is Closing; in Closing no read loop is
\* launched and no line is executed.
C24_Lifecycle ==
    [][/\ \/ SessionState' = SessionState
          \/ <<SessionState, SessionState'>> \in
                { <<"Starting", "Running">>, <<"Running", "Restarting">>,
                  <<"Restarting", "Running">>, <<"Running", "Closing">>,
                  <<"Restarting", "Closing">> }
       /\ (promptRunning' /\ ~promptRunning) =>
             /\ ~promptCancelled'
             /\ mainPc = "begin" \/ (mainPc = "check" /\ afterClose # "Exit")
       /\ mainPc = "check" => (~promptRunning /\ execPc = "idle")
       /\ (mainPc = "check" /\ mainPc' # "check") =>
             SessionState' = (IF afterClose = "Exit" THEN "Closing" ELSE "Running")
       /\ SessionState = "Closing" =>
             (SessionState' = "Closing" /\ ~promptRunning' /\ execPc' = "idle")]_vars

\* the session ended after the .exit directive was executed by a read loop
\* that an earlier restart had launched
C24_ClosedByDirectiveAfterRestart ==
    /\ SessionState = "Closing"
    /\ Len(history) = 2
    /\ history[2] = ExitDirective
    /\ sigint = "none"
    /\ handlerPc # "closed"

\* C25: when the wait for the initialisation of a line submitted before the
\* client was initialised ends with an error, the line is dropped: the input
\* buffer is empty, the history is as it was, the cancel token of the wait
\* is invalidated, and the executor call is on its way to return (restart of
\* the prompt) with nothing resolved and nothing executed. A wait that ends
\* after a failed initialisation, or before the client is initialised, ends
\* with an error.
C25_LineDroppedOnWaitError ==
    [][(execPc = "waitinit" /\ execPc' # "waitinit") =>
         /\ (initError \/ ~initialisationComplete) => execPc' = "restart"
         /\ execPc' = "restart" =>
               /\ interactiveBuffer' = <<>>
               /\ history' = history
               /\ cancelActiveQuery' = "nil" /\ queryCtxCancelled'
               /\ resolved' = NoQuery /\ lastResult' = "none"]_vars

\* a statement submitted before the initialisation failed was dropped
C25_StatementDroppedAfterInitFailure ==
    /\ execPc = "restart"
    /\ waitedInit
    /\ line = <<"1", SEMI>>
    /\ initError
    /\ history = <<>>

\* C26: once the context of the notification listener is cancelled at
\* teardown, the loop ends and the subscription is closed, whether the
\* listener was waiting for a notification or in an invalidation cycle; once
\* the loop has ended no invalidation cycle starts.
C26_ListenerEnds ==
    /\ listenerCancelled ~> (listenerPc = "done")
    /\ [][listenerPc = "done" => listenerPc' = "done"]_vars
    /\ [](listenerCancelled => "stopListener" \in {teardown[i] : i \in DOMAIN teardown})

\* the listener has served a schema update without an error and has ended
\* after the teardown
C26_EndedWithPendingNotification ==
    /\ listenerPc = "done"
    /\ mainPc = "done"
    /\ notification = "SchemaUpdate"
    /\ cycleError = "none"
    /\ connectionMap = 1

\* C27: the set PopulateChildren resolves depends only on the connection map
\* and on the set of the child names: when a call returns, the keys of
\* c.Connections are the set computed for every list of the same child names
\* in every order of the map's keys, and the names a former call on the same
\* map has stored in ResolvedConnectionNames are those keys.
C27_ResolvedSetDeterministic ==
    [][(connPc = "populating" /\ connPc' = "populated") =>
         LET c == configConnections[AggregatorName]
             entries == {c.ConnectionNames[i] : i \in 1..Len(c.ConnectionNames)}
         IN  /\ \A names \in ChildNameLists(MaxChildren) :
                   {names[i] : i \in 1..Len(names)} = entries =>
                     \A order \in KeyOrders(configConnections) :
                        PopulateChildren([c EXCEPT !.ConnectionNames = names],
                                         configConnections, order) = Connections'
             /\ ResolvedConnectionNames # {} => ResolvedConnectionNames = Connections'
             /\ ResolvedConnectionNames' = Connections']_vars

\* a second call for the child names ["*", "b*"] has reached the end of its
\* loop with the members b1, b2 and c that the first call resolved
C27_SecondCallSameMembers ==
    /\ connPc = "populating"
    /\ populateIdx = 3
    /\ configConnections[AggregatorName].ConnectionNames = << <<"*">>, <<"b", "*">> >>
    /\ ResolvedConnectionNames = { <<"b", "1">>, <<"b", "2">>, <<"c">> }
    /\ Connections = ResolvedConnectionNames

====
